---- MODULE Spec2Model ----
(***************************************************************************)
(* BrickWall (src/src/three/BrickWall.ts): placement of bricks along a     *)
(* path, the density falloff around an anchor, and the instanced mesh the  *)
(* wall keeps in the scene.                                                *)
(*                                                                         *)
(* Numbers.  Lengths are integers counted in a fixed quantum; brickLength  *)
(* and brickHeight are even multiples of it, so brickLength / 2 and        *)
(* (i + 0.5) * brickLength are exact.  The falloff strength is a rational  *)
(* with denominator FalloffScale.  Arc-length fractions u = i/sampleCount  *)
(* are kept as the integer i; a point of the curve is kept multiplied by   *)
(* sampleCount.  All comparisons of the code are done on these exact       *)
(* values (cross-multiplied), never on rounded ones.                       *)
(*                                                                         *)
(* The curve is a THREE.CatmullRomCurve3, which is not code of this        *)
(* program.  It is represented by an arc-length parametrised planar path   *)
(* with one right-angle corner: a leg of length `bend` along x followed by *)
(* a leg of length len - bend along z (bend = len is a straight path).     *)
(***************************************************************************)
EXTENDS Integers, Sequences, FiniteSets, TLC

(* ---- bounds of the model ---- *)
MaxHalfBrick == 2
MaxLength == 7
MaxRows == 4
MaxFalloffSteps == 4
MaxAnchor == 2
\* the spacing of the falloff strengths tried, in units of 1/FalloffScale
FalloffStep == 250
MaxWidth == 3
MaxGap == 4
MaxTarget == 6
\* ground hits of the pointer lie MaxHit steps of HitStep along x
HitStep == 100
MaxHit == 3
\* the editor canvas is MaxCol steps of PixelStep pixels wide and 2 steps high
PixelStep == 7
MaxCol == 3

(* ---- constants of the program ---- *)
sampleCount == 256
baseWorldWidth == 30
baseWorldDepth == 14
\* the 0.01 of applyPlacements, in the quantum of lengths
Epsilon == 2
\* the denominator of strengths: 0.999 is 999 / FalloffScale
FalloffScale == 1000
\* position.count and normalAttr.count of the BoxGeometry of a brick
positionCount == 24
\* const radius = 14 of pickHandle, in pixels
radius == 14
normalCount == 24
\* const threshold = 1 of handleFalloffPointerDown: one world unit is 200
\* quanta, as 0.01 is Epsilon
threshold == 200
\* the 0.01 that updateFalloffAnchor raises the anchor above the ground
anchorHeight == 2

\* params, curve, falloffAnchor: the arguments of the last update (the curve
\*   is the one built from points and targetLength at lines 37-51)
\* placements, pruned: the locals of update after lines 52 and 53
\* mesh, wireframeGroup: the fields of BrickWall (<<>> is null)
\* points: the points argument of the last call of update
\* targetLength, world: the targetLength argument and the world width and
\*   depth of the curve of the last update that got past its first check
\* scene: what the wall holds in the THREE.Scene and on the GPU
\* view: the fields of BrickScene (currentCurve, currentParams, pathLength,
\*   falloffAnchor, isDraggingFalloff, controls.enabled), the handler that ran
\*   last and the number of calls of BrickWall.update it made
\* editor: the fields of CurveEditor (points, draggingIndex) and the
\*   snapshots the last handler gave to the change handlers
VARIABLES params, curve, falloffAnchor, placements, pruned, mesh, wireframeGroup,
          points, targetLength, world, scene, view, editor

wallVars == <<params, curve, falloffAnchor, placements, pruned, mesh,
              wireframeGroup, points, targetLength, world, scene>>

vars == <<params, curve, falloffAnchor, placements, pruned, mesh, wireframeGroup,
          points, targetLength, world, scene, view, editor>>

(* ---- input domains ---- *)
BrickLengths == {2 * h : h \in 1..MaxHalfBrick}
BrickHeights == {2 * h : h \in 1..MaxHalfBrick}
\* a width of 1 is a brick thinner than 0.01
BrickWidths == 1..MaxWidth
\* a gap may be negative, and may reach or pass every dimension
Gaps == (0 - 1)..MaxGap
\* the target length is absent, 0, negative or positive
Targets == {<<>>, <<0>>, <<0 - 1>>} \cup {<<t>> : t \in 1..MaxTarget}
RowCounts == 1..MaxRows
\* falloff: missing (<<>>) or <<numerator over FalloffScale>>; the range
\* reaches one step below 0 and one step above 1, and holds 1/FalloffScale
FalloffValues ==
    {<<>>} \cup {<<1>>}
    \cup {<<k * FalloffStep>> : k \in (0 - 1)..(MaxFalloffSteps + 1)}
\* the curve: finite length len with a corner at bend, or a non-finite length
Curves ==
    {[finite |-> FALSE, len |-> 0, bend |-> 0]}
    \cup {[finite |-> TRUE, len |-> n, bend |-> n] : n \in 0..MaxLength}
    \cup {[finite |-> TRUE, len |-> n, bend |-> n \div 2] : n \in 0..MaxLength}
\* anchors before the path start, beside it and beyond its far part
AnchorPoints ==
    {<<0 - 1, 0>>, <<MaxAnchor + 1, 0>>, <<MaxAnchor + 1, MaxAnchor>>,
     <<3 * MaxAnchor, MaxAnchor>>}
Anchors == {<<>>} \cup {<<a>> : a \in AnchorPoints}

\* the parameter snapshot of the first rebuild: the fields of
\* DEFAULT_BRICK_PARAMETERS with values of the size of the model
InitialParams ==
    [brickLength |-> 2, brickWidth |-> 4, brickHeight |-> 2,
     gap |-> 1, falloff |-> <<0>>, rows |-> MaxRows]

(* ---- arithmetic helpers ---- *)
Max(a, b) == IF a >= b THEN a ELSE b
Min(a, b) == IF a <= b THEN a ELSE b
Abs(a) == IF a < 0 THEN 0 - a ELSE a

(* ---- the curve ---- *)
\* curve.getLength()
getLength(c) == c.len
IsFiniteLength(c) == c.finite

\* curve.getPointAt(i / sampleCount), multiplied by sampleCount: <<x, z>>
getPointAt(c, i) ==
    LET s == i * c.len
        b == sampleCount * Min(c.bend, c.len)
    IN  IF s <= b THEN <<s, 0>> ELSE <<b, s - b>>

(* ---- computePlacements ---- *)
\* row % 2 ? brickLength / 2 : 0
rowOffset(row, brickLength) ==
    IF row % 2 # 0 THEN brickLength \div 2 ELSE 0

\* Math.max(totalLength - rowOffset, brickLength)
usableLength(totalLength, offset, brickLength) ==
    Max(totalLength - offset, brickLength)

\* the brick count rounded up instead of down
bricksInRow_RoundedUp(usable, brickLength) ==
    Max(1, (usable + brickLength - 1) \div brickLength)

\* Math.max(1, Math.floor(usableLength / brickLength))
bricksInRow(usable, brickLength) ==
    Max(1, usable \div brickLength)

\* centerDistance measured to the start of the brick: i * brickLength
centerDistance_NoHalf(offset, i, brickLength) ==
    offset + i * brickLength

\* rowOffset + (i + 0.5) * brickLength
centerDistance(offset, i, brickLength) ==
    offset + i * brickLength + brickLength \div 2

\* the guard with >= : a brick centred exactly on the path end is dropped
skipPlacement_AtEnd(distance, totalLength) ==
    distance >= totalLength

\* the guard of the inner loop: the placement is skipped when TRUE
skipPlacement(distance, totalLength) ==
    distance > totalLength

\* the inner loop, for (let i = 0; i < bricksInRow; i += 1)
RECURSIVE brickLoop(_, _, _, _, _, _, _)
brickLoop(i, count, offset, row, brickLength, totalLength, acc) ==
    IF i >= count THEN acc
    ELSE LET d == centerDistance(offset, i, brickLength)
         IN  brickLoop(i + 1, count, offset, row, brickLength, totalLength,
                 IF skipPlacement(d, totalLength) THEN acc
                 ELSE Append(acc, [distance |-> d, row |-> row]))

\* the outer loop, for (let row = 0; row < rows; row += 1)
RECURSIVE rowLoop(_, _, _, _, _)
rowLoop(row, rows, brickLength, totalLength, acc) ==
    IF row >= rows THEN acc
    ELSE LET offset == rowOffset(row, brickLength)
             usable == usableLength(totalLength, offset, brickLength)
             count == bricksInRow(usable, brickLength)
         IN  rowLoop(row + 1, rows, brickLength, totalLength,
                 brickLoop(0, count, offset, row, brickLength, totalLength, acc))

computePlacements(c, p) ==
    IF ~IsFiniteLength(c) \/ getLength(c) <= 0 THEN <<>>
    ELSE rowLoop(0, p.rows, p.brickLength, getLength(c), <<>>)

(* ---- applyFalloff ---- *)
\* a missing falloff read as full strength: falloff ?? 1
falloffOrZero_DefaultOne(p) == IF p.falloff = <<>> THEN FalloffScale ELSE p.falloff[1]

\* falloff ?? 0
falloffOrZero(p) == IF p.falloff = <<>> THEN 0 ELSE p.falloff[1]

\* clampedFalloff without the upper clamp Math.min(..., 1)
clampedFalloff_NoUpperClamp(p) == Max(0, falloffOrZero(p))

\* Math.max(0, Math.min(falloff ?? 0, 1)), as a numerator over FalloffScale
clampedFalloff(p) == Max(0, Min(falloffOrZero(p), FalloffScale))

\* the early return of lines 219-226 (rows is an integer here, so the
\* test !Number.isFinite(rows) never fires)
falloffDisabled(p, anchor) ==
    \/ clampedFalloff(p) <= 0
    \/ anchor = <<>>
    \/ p.rows <= 1

\* dx * dx + dz * dz for sample i, multiplied by sampleCount^2
distSq(c, anchor, i) ==
    LET pt == getPointAt(c, i)
        dx == pt[1] - sampleCount * anchor[1]
        dz == pt[2] - sampleCount * anchor[2]
    IN  dx * dx + dz * dz

\* the sampling loop of lines 237-247 over the samples lo..hi: the first
\* sample of least distSq (the loop replaces the best one only on d < best).
\* The range is halved instead of walked, which gives the same sample.
RECURSIVE sampleLoop(_, _, _, _)
sampleLoop(lo, hi, c, anchor) ==
    IF lo = hi THEN <<lo, distSq(c, anchor, lo)>>
    ELSE LET mid == (lo + hi) \div 2
             left == sampleLoop(lo, mid, c, anchor)
             right == sampleLoop(mid + 1, hi, c, anchor)
         IN  IF right[2] < left[2] THEN right ELSE left

\* bestU * sampleCount
bestU(c, anchor) == sampleLoop(0, sampleCount, c, anchor)[1]

\* bestU tabulated once over the curves and anchors of the model, so that
\* the 257 samples are not walked again for every rebuild
bestUTable == [c \in Curves, a \in AnchorPoints |-> bestU(c, a)]

\* anchorDistance = bestU * totalLength, multiplied by sampleCount
anchorDistance(c, anchor) == bestUTable[c, anchor] * getLength(c)

\* the keys of byRow in insertion order: rows in order of first appearance
RECURSIVE rowKeys(_, _, _)
rowKeys(ps, k, acc) ==
    IF k > Len(ps) THEN acc
    ELSE rowKeys(ps, k + 1,
             IF \E j \in 1..Len(acc) : acc[j] = ps[k].row THEN acc
             ELSE Append(acc, ps[k].row))

\* byRow.get(row): the placements of the row in input order
rowList(ps, row) == SelectSeq(ps, LAMBDA q : q.row = row)

\* rowPlacements.sort((a, b) => a.distance - b.distance): stable insertion
RECURSIVE insertByDistance(_, _)
insertByDistance(sorted, q) ==
    IF sorted = <<>> THEN <<q>>
    ELSE IF sorted[Len(sorted)].distance <= q.distance
         THEN Append(sorted, q)
         ELSE Append(insertByDistance(SubSeq(sorted, 1, Len(sorted) - 1), q),
                     sorted[Len(sorted)])

\* the sort with the comparator reversed: b.distance - a.distance
sortByDistance_Descending(list, k, acc) ==
    LET n == Len(list)
        asc == [j \in 1..n |->
                   CHOOSE q \in {list[i] : i \in 1..n} :
                       Cardinality({i \in 1..n : list[i].distance < q.distance}) = j - 1]
    IN  [j \in 1..n |-> asc[n + 1 - j]]

RECURSIVE sortByDistance(_, _, _)
sortByDistance(list, k, acc) ==
    IF k > Len(list) THEN acc
    ELSE sortByDistance(list, k + 1, insertByDistance(acc, list[k]))

\* keepFraction >= 0.999 with keepFraction = 1 - clampedFalloff * rowFactor
\* and rowFactor = row / (rows - 1); here s is the numerator of clampedFalloff
keepsWholeRow(s, row, rows) ==
    LET den == FalloffScale * (rows - 1)
    IN  1000 * (den - s * row) >= 999 * den

\* bricksToKeep with the row factor taken from the top: (rows - 1 - row)
bricksToKeep_InvertedTaper(totalBricks, s, row, rows) ==
    LET den == FalloffScale * (rows - 1)
        rounded == (2 * totalBricks * (den - s * (rows - 1 - row)) + den)
                       \div (2 * den)
    IN  Min(totalBricks, Max(1, rounded))

\* bricksToKeep without the lower clamp Math.max(1, ...)
bricksToKeep_NoMinimum(totalBricks, s, row, rows) ==
    LET den == FalloffScale * (rows - 1)
        rounded == (2 * totalBricks * (den - s * row) + den) \div (2 * den)
    IN  Min(totalBricks, rounded)

\* Math.min(totalBricks, Math.max(1, Math.round(totalBricks * keepFraction)))
\* Math.round rounds halves up: floor(x + 1/2)
bricksToKeep(totalBricks, s, row, rows) ==
    LET den == FalloffScale * (rows - 1)
        rounded == (2 * totalBricks * (den - s * row) + den) \div (2 * den)
    IN  Min(totalBricks, Max(1, rounded))

\* the forEach with d <= bestDist: the last of several nearest bricks wins
RECURSIVE closestLoop_LastNearest(_, _, _, _, _)
closestLoop_LastNearest(list, index, closest, bestDist, anchorDist) ==
    IF index >= Len(list) THEN closest
    ELSE LET d == Abs(sampleCount * list[index + 1].distance - anchorDist)
         IN  IF bestDist = 0 - 1 \/ d <= bestDist
             THEN closestLoop_LastNearest(list, index + 1, index, d, anchorDist)
             ELSE closestLoop_LastNearest(list, index + 1, closest, bestDist, anchorDist)

\* the forEach of lines 276-282; bestDist = -1 stands for POSITIVE_INFINITY;
\* distances are compared multiplied by sampleCount; the index is 0-based
RECURSIVE closestLoop(_, _, _, _, _)
closestLoop(list, index, closest, bestDist, anchorDist) ==
    IF index >= Len(list) THEN closest
    ELSE LET d == Abs(sampleCount * list[index + 1].distance - anchorDist)
         IN  IF bestDist = 0 - 1 \/ d < bestDist
             THEN closestLoop(list, index + 1, index, d, anchorDist)
             ELSE closestLoop(list, index + 1, closest, bestDist, anchorDist)

closestIndex(list, anchorDist) == closestLoop(list, 0, 0, 0 - 1, anchorDist)

\* the window laid after the closest brick instead of around it
windowStart_AfterClosest(closest, keep, totalBricks) ==
    Max(0, Min(closest + 1, totalBricks - keep))

\* lines 284-285
windowStart(closest, keep, totalBricks) ==
    Max(0, Min(closest - ((keep - 1) \div 2), totalBricks - keep))

\* keptOfRow without the row === 0 branch and with a 1-based row in rowFactor
keptOfRow_RowZeroPruned(list, row, s, rows, anchorDist) ==
    IF keepsWholeRow(s, row + 1, rows + 1) THEN list
    ELSE LET totalBricks == Len(list)
             keep == bricksToKeep(totalBricks, s, row + 1, rows + 1)
             start == windowStart(closestIndex(list, anchorDist), keep, totalBricks)
         IN  SubSeq(list, start + 1, start + keep)

\* what one iteration of the loop of lines 258-290 pushes to result
keptOfRow(list, row, s, rows, anchorDist) ==
    IF row = 0 THEN list
    ELSE IF keepsWholeRow(s, row, rows) THEN list
    ELSE LET totalBricks == Len(list)
             keep == bricksToKeep(totalBricks, s, row, rows)
             start == windowStart(closestIndex(list, anchorDist), keep, totalBricks)
         IN  SubSeq(list, start + 1, start + keep)

RECURSIVE pruneLoop(_, _, _, _, _, _, _)
pruneLoop(keys, k, ps, s, rows, anchorDist, result) ==
    IF k > Len(keys) THEN result
    ELSE LET row == keys[k]
             list == sortByDistance(rowList(ps, row), 1, <<>>)
         IN  pruneLoop(keys, k + 1, ps, s, rows, anchorDist,
                 result \o keptOfRow(list, row, s, rows, anchorDist))

applyFalloff(ps, p, c, anchor) ==
    IF falloffDisabled(p, anchor) THEN ps
    ELSE IF ~IsFiniteLength(c) \/ getLength(c) <= 0 THEN ps
    ELSE pruneLoop(rowKeys(ps, 1, <<>>), 1, ps, clampedFalloff(p), p.rows,
                   anchorDistance(c, anchor[1]), <<>>)

(* ---- applyPlacements ---- *)
Min3(a, b, c) == Min(a, Min(b, c))

maxShrink_NoEpsilon(p) == Max(0, Min3(p.brickLength, p.brickWidth, p.brickHeight))

\* Math.max(0, Math.min(brickLength, brickWidth, brickHeight) - 0.01)
maxShrink(p) == Max(0, Min3(p.brickLength, p.brickWidth, p.brickHeight) - Epsilon)

\* Math.max(0, Math.min(gap, maxShrink))
clampedGap(p) == Max(0, Min(p.gap, maxShrink(p)))

effective_GapAdded(dimension, p) == Max(dimension + clampedGap(p), Epsilon)

\* Math.max(dimension - clampedGap, 0.01)
effective(dimension, p) == Max(dimension - clampedGap(p), Epsilon)

\* curve.getPointAt(Math.min(distance / totalLength, 1)) and the flattened
\* tangent there, for the cornered path
pointAtDistance(c, distance) ==
    LET d == Min(distance, c.len)
        b == Min(c.bend, c.len)
    IN  IF d <= b THEN <<d, 0>> ELSE <<b, d - b>>

tangentAtDistance(c, distance) ==
    IF Min(distance, c.len) <= Min(c.bend, c.len) /\ c.bend > 0 THEN "x" ELSE "z"

instanceOf_EffectiveHeight(c, q, p) ==
    [point |-> pointAtDistance(c, q.distance),
     y |-> q.row * effective(p.brickHeight, p) + effective(p.brickHeight, p) \div 2,
     tangent |-> tangentAtDistance(c, q.distance)]

\* the matrix written by setMatrixAt for one placement (lines 348-364)
instanceOf(c, q, p) ==
    [point |-> pointAtDistance(c, q.distance),
     y |-> q.row * p.brickHeight + p.brickHeight \div 2,
     tangent |-> tangentAtDistance(c, q.distance)]

meshOf_ReversedOrder(c, ps, p) ==
    [geometry |-> [length |-> effective(p.brickLength, p),
                   height |-> effective(p.brickHeight, p),
                   width |-> effective(p.brickWidth, p)],
     count |-> Len(ps),
     instances |-> [k \in 1..Len(ps) |-> instanceOf(c, ps[Len(ps) + 1 - k], p)]]

\* the mesh created at lines 315-329 and filled at lines 347-375
meshOf(c, ps, p) ==
    [geometry |-> [length |-> effective(p.brickLength, p),
                   height |-> effective(p.brickHeight, p),
                   width |-> effective(p.brickWidth, p)],
     count |-> Len(ps),
     instances |-> [k \in 1..Len(ps) |-> instanceOf(c, ps[k], p)]]

\* geometry.getIndex() of the BoxGeometry: 6 sides of 4 vertices and 2
\* triangles each, 0-based
boxIndex ==
    [i \in 1..(positionCount \div 4) * 6 |->
        4 * ((i - 1) \div 6) + <<0, 2, 1, 2, 3, 1>>[((i - 1) % 6) + 1]]

\* the f lines of one instance (lines 118-131): a//na b//nb c//nc
faceLines(vertexOffset, normalOffset) ==
    [t \in 1..Len(boxIndex) \div 3 |->
        [a |-> boxIndex[3 * t - 2] + vertexOffset,
         b |-> boxIndex[3 * t - 1] + vertexOffset,
         c |-> boxIndex[3 * t] + vertexOffset,
         na |-> boxIndex[3 * t - 2] + normalOffset,
         nb |-> boxIndex[3 * t - 1] + normalOffset,
         nc |-> boxIndex[3 * t] + normalOffset]]

RECURSIVE instanceLoop_FixedOffset(_, _, _, _, _)
instanceLoop_FixedOffset(m, instance, vertexOffset, normalOffset, obj) ==
    IF instance > m.count THEN obj
    ELSE instanceLoop_FixedOffset(m, instance + 1, vertexOffset, normalOffset,
             Append(obj, [matrix |-> m.instances[instance],
                          v |-> positionCount,
                          vn |-> normalCount,
                          f |-> faceLines(vertexOffset, normalOffset)]))

\* the loop over the instances of lines 100-153: the v lines, the vn lines
\* and the f lines of each instance, then the two offsets move on
RECURSIVE instanceLoop(_, _, _, _, _)
instanceLoop(m, instance, vertexOffset, normalOffset, obj) ==
    IF instance > m.count THEN obj
    ELSE instanceLoop(m, instance + 1, vertexOffset + positionCount,
                      normalOffset + normalCount,
             Append(obj, [matrix |-> m.instances[instance],
                          v |-> positionCount,
                          vn |-> normalCount,
                          f |-> faceLines(vertexOffset, normalOffset)]))

\* exportOBJ: null without a mesh, else the blocks of the instances (a
\* BoxGeometry always has positions, normals and an index)
exportOBJ(m) ==
    IF m = <<>> THEN <<>>
    ELSE <<instanceLoop(m[1], 1, 1, 1, <<>>)>>

(* ---- the scene ---- *)
\* meshes, groups: the instanced meshes and wireframe groups of the wall
\* that are children of the scene; live: its geometries and materials that
\* were created and not disposed
emptyScene == [meshes |-> 0, groups |-> 0, live |-> 0]

sceneAfterDispose_LeaksGeometry(sc, m, wg) ==
    [meshes |-> IF m # <<>> THEN sc.meshes - 1 ELSE sc.meshes,
     groups |-> IF wg # <<>> THEN sc.groups - 1 ELSE sc.groups,
     live |-> sc.live - (IF m # <<>> THEN 1 ELSE 0) - (IF wg # <<>> THEN 2 ELSE 0)]

sceneAfterDispose_NoRemove(sc, m, wg) ==
    [meshes |-> sc.meshes,
     groups |-> sc.groups,
     live |-> sc.live - (IF m # <<>> THEN 2 ELSE 0) - (IF wg # <<>> THEN 2 ELSE 0)]

\* dispose() of lines 57-76 on the scene: m and wg are this.mesh and
\* this.wireframeGroup (wireframeGeometry and wireframeMaterial are set and
\* cleared together with the group)
sceneAfterDispose(sc, m, wg) ==
    [meshes |-> IF m # <<>> THEN sc.meshes - 1 ELSE sc.meshes,
     groups |-> IF wg # <<>> THEN sc.groups - 1 ELSE sc.groups,
     live |-> sc.live - (IF m # <<>> THEN 2 ELSE 0) - (IF wg # <<>> THEN 2 ELSE 0)]

\* lines 315-344 on the scene: one mesh with its geometry and material, one
\* group with the edges geometry and the line material
sceneAfterCreate(sc) ==
    [meshes |-> sc.meshes + 1, groups |-> sc.groups + 1, live |-> sc.live + 4]

(* ---- createCurve and the rescale of update ---- *)
\* A point is <<x, z>>.  Its coordinates count the steps of the editor plane
\* that one quantum of world length spans at the base world size, so that
\* (x - centerX) * worldWidth is an integer number of quanta.  NaN is a
\* coordinate that is not a number.  A world size is a fraction <<n, d>>.
NaN == 0 - 1

hasNaN(pts) == \E k \in 1..Len(pts) : pts[k][1] = NaN \/ pts[k][2] = NaN

\* the path run of the control points along axis a (1 is x, 2 is z)
RECURSIVE run(_, _, _)
run(pts, a, k) ==
    IF k >= Len(pts) THEN 0
    ELSE Abs(pts[k + 1][a] - pts[k][a]) + run(pts, a, k + 1)

\* the sum of the coordinates of the points on axis a (lines 163-168)
RECURSIVE sumAxis(_, _, _)
sumAxis(pts, a, k) ==
    IF k > Len(pts) THEN 0 ELSE pts[k][a] + sumAxis(pts, a, k + 1)

\* point - center of lines 169-177 before the world factor, multiplied by
\* points.length so that the centroid needs no division
vectors(pts) ==
    [k \in 1..Len(pts) |->
        <<Len(pts) * pts[k][1] - sumAxis(pts, 1, 1),
          Len(pts) * pts[k][2] - sumAxis(pts, 2, 1)>>]

\* createCurve: the curve through the points scaled by the world size.  The
\* record keeps the length and the corner of the path; subtracting the
\* centroid (lines 163-170) moves the path and changes neither.
createCurve(pts, worldWidth, worldDepth) ==
    IF hasNaN(pts) THEN [finite |-> FALSE, len |-> 0, bend |-> 0]
    ELSE LET xrun == (run(pts, 1, 1) * worldWidth[1])
                         \div (baseWorldWidth * worldWidth[2])
             zrun == (run(pts, 2, 1) * worldDepth[1])
                         \div (baseWorldDepth * worldDepth[2])
         IN  [finite |-> TRUE, len |-> xrun + zrun, bend |-> xrun]

baseWorld == [width |-> <<baseWorldWidth, 1>>, depth |-> <<baseWorldDepth, 1>>]

rescales_NegativeTarget(target, baseCurve) ==
    /\ target # <<>>
    /\ target[1] # 0
    /\ IsFiniteLength(baseCurve)
    /\ getLength(baseCurve) > 0

\* lines 43-45: targetLength && targetLength > 0, and the base length is
\* finite and > 0
rescales(target, baseCurve) ==
    /\ target # <<>>
    /\ target[1] # 0
    /\ target[1] > 0
    /\ IsFiniteLength(baseCurve)
    /\ getLength(baseCurve) > 0

worldFor_WidthOnly(pts, target) ==
    LET baseCurve == createCurve(pts, baseWorld.width, baseWorld.depth)
    IN  IF rescales(target, baseCurve)
        THEN [width |-> <<baseWorldWidth * target[1], getLength(baseCurve)>>,
              depth |-> baseWorld.depth]
        ELSE baseWorld

\* lines 46-48: the world width and depth the curve of update is built with;
\* scale = targetLength / baseLength is kept as a fraction
worldFor(pts, target) ==
    LET baseCurve == createCurve(pts, baseWorld.width, baseWorld.depth)
    IN  IF rescales(target, baseCurve)
        THEN [width |-> <<baseWorldWidth * target[1], getLength(baseCurve)>>,
              depth |-> <<baseWorldDepth * target[1], getLength(baseCurve)>>]
        ELSE baseWorld

\* lines 37-51: the curve of update
curveFor(pts, target) ==
    LET w == worldFor(pts, target)
    IN  createCurve(pts, w.width, w.depth)

(* ---- operations of BrickWall ---- *)
update_KeepsStaleMesh(c, p, anchor) ==
    LET all == computePlacements(c, p)
        kept == applyFalloff(all, p, c, anchor)
        cleared == sceneAfterDispose(scene, mesh, wireframeGroup)
    IN  /\ params' = p
        /\ curve' = c
        /\ falloffAnchor' = anchor
        /\ placements' = all
        /\ pruned' = kept
        /\ mesh' = IF kept = <<>> THEN mesh ELSE <<meshOf(c, kept, p)>>
        /\ wireframeGroup' = IF kept = <<>> THEN wireframeGroup ELSE <<Len(kept)>>
        /\ scene' = IF kept = <<>> THEN scene ELSE sceneAfterCreate(cleared)

\* lines 52-54 of update: c is the curve built from points and targetLength.
\* The matrices are composed in this.tempObject, whose position, quaternion
\* and scale are all assigned for every placement before updateMatrix (lines
\* 358-362), so nothing of an earlier placement or call is read from it.
update(c, p, anchor) ==
    LET all == computePlacements(c, p)
        kept == applyFalloff(all, p, c, anchor)
        cleared == sceneAfterDispose(scene, mesh, wireframeGroup)
    IN  /\ params' = p
        /\ curve' = c
        /\ falloffAnchor' = anchor
        /\ placements' = all
        /\ pruned' = kept
        \* applyPlacements: dispose(), then nothing more for an empty list
        /\ mesh' = IF kept = <<>> THEN <<>> ELSE <<meshOf(c, kept, p)>>
        /\ wireframeGroup' = IF kept = <<>> THEN <<>> ELSE <<Len(kept)>>
        /\ scene' = IF kept = <<>> THEN cleared ELSE sceneAfterCreate(cleared)

BrickWall_update_NoLengthCheck(pts, p, target, anchor) ==
    /\ points' = pts
    /\ targetLength' = target
    /\ world' = worldFor(pts, target)
    /\ update(curveFor(pts, target), p, anchor)

\* update(points, params, targetLength, falloffAnchor)
BrickWall_update(pts, p, target, anchor) ==
    IF Len(pts) < 2
    THEN /\ points' = pts
         /\ UNCHANGED <<params, curve, falloffAnchor, placements, pruned,
                        mesh, wireframeGroup, targetLength, world, scene>>
    ELSE /\ points' = pts
         /\ targetLength' = target
         /\ world' = worldFor(pts, target)
         /\ update(curveFor(pts, target), p, anchor)

dispose ==
    /\ mesh' = <<>>
    /\ wireframeGroup' = <<>>
    /\ scene' = sceneAfterDispose(scene, mesh, wireframeGroup)
    /\ UNCHANGED <<params, curve, falloffAnchor, placements, pruned,
                   points, targetLength, world, view, editor>>

\* a point list that createCurve turns into the curve c at the base world
\* size: two points for a straight path, three for a path with a corner
PointsOf(c) ==
    IF ~c.finite THEN <<<<NaN, 0>>, <<1, 0>>>>
    ELSE IF c.bend = c.len THEN <<<<0, 0>>, <<c.len, 0>>>>
    ELSE <<<<0, 0>>, <<c.bend, 0>>, <<c.bend, c.len - c.bend>>>>

(* ---- the callers: one input changes, the wall is rebuilt ---- *)
\* a call of update by a caller other than BrickScene
directUpdate(pts, p, target, anchor) ==
    /\ BrickWall_update(pts, p, target, anchor)
    /\ UNCHANGED <<view, editor>>

SetBrickLength == \E v \in BrickLengths :
    directUpdate(points, [params EXCEPT !.brickLength = v], targetLength,
                 falloffAnchor)

SetRows == \E v \in RowCounts :
    directUpdate(points, [params EXCEPT !.rows = v], targetLength,
                 falloffAnchor)

SetFalloff == \E v \in FalloffValues :
    directUpdate(points, [params EXCEPT !.falloff = v], targetLength,
                 falloffAnchor)

\* the path changes and no target length is given
CurveChange == \E c \in Curves :
    directUpdate(PointsOf(c), params, <<>>, falloffAnchor)

AnchorChange == \E a \in Anchors :
    directUpdate(points, params, targetLength, a)

SetGap == \E v \in Gaps :
    directUpdate(points, [params EXCEPT !.gap = v], targetLength,
                 falloffAnchor)

SetBrickWidth == \E v \in BrickWidths :
    directUpdate(points, [params EXCEPT !.brickWidth = v], targetLength,
                 falloffAnchor)

SetBrickHeight == \E v \in BrickHeights :
    directUpdate(points, [params EXCEPT !.brickHeight = v], targetLength,
                 falloffAnchor)

\* the point lists of the calls: none, one point, and the lists of Curves
PointLists == {<<>>, <<<<0, 0>>>>} \cup {PointsOf(c) : c \in Curves}

\* the corner of the rescaled path falls on a whole quantum, so that the
\* integer division of createCurve is exact
onGrid(pts, target) ==
    LET baseCurve == createCurve(pts, baseWorld.width, baseWorld.depth)
    IN  (Len(pts) >= 2 /\ rescales(target, baseCurve)) =>
            (run(pts, 1, 1) * target[1]) % getLength(baseCurve) = 0

PointsChange == \E pts \in PointLists :
    /\ onGrid(pts, targetLength)
    /\ directUpdate(pts, params, targetLength, falloffAnchor)

PathLengthChange == \E t \in Targets :
    /\ onGrid(points, t)
    /\ directUpdate(points, params, t, falloffAnchor)

(* ---- BrickScene ---- *)
\* the point list of the editor's default points, a straight path
DefaultCurvePoints == <<<<0, 0>>, <<MaxLength, 0>>>>

\* the point lists the panel reports: straight and cornered paths
SceneCurves ==
    {PointsOf(c) : c \in {d \in Curves : d.finite /\ d.len >= MaxLength - 1}}

\* the values of the path length slider
PathLengths == 1..MaxTarget

\* event.button: the left and the right button
Buttons == {0, 2}

\* getGroundIntersection: null (<<>>) or a point <<x, z>> of the ground
GroundHits == {<<>>} \cup {<<<<k * HitStep, 4 * threshold>>>> : k \in 0..MaxHit}

\* the fields after new BrickWall(scene) at line 144: falloffAnchor is
\* (0, 0.01, 4), currentCurve and currentParams are not assigned yet; event
\* names the last handler and button is event.button of a pointer down
newView ==
    [currentCurve |-> <<>>,
     currentParams |-> <<>>,
     pathLength |-> MaxTarget,
     falloffAnchor |-> <<0, 4 * threshold>>,
     isDraggingFalloff |-> FALSE,
     controlsEnabled |-> TRUE,
     event |-> "new",
     button |-> <<>>,
     updates |-> 0]

\* the constructor has run to its end
constructed == view.event \notin {"new", "initial sync"}

\* hit.distanceToSquared(this.falloffAnchor) of a ground hit a = (x, 0, z)
\* and the anchor b = (x, 0.01, z)
distanceToSquared(a, b) ==
    (a[1] - b[1]) * (a[1] - b[1]) + anchorHeight * anchorHeight
        + (a[2] - b[2]) * (a[2] - b[2])

\* the number of calls of BrickWall.update that rebuildWall makes
rebuilds(v) == IF v.currentCurve = <<>> \/ v.currentParams = <<>> THEN 0 ELSE 1

rebuildWall_StalePathLength(v) ==
    IF v.currentCurve = <<>> \/ v.currentParams = <<>>
    THEN UNCHANGED wallVars
    ELSE BrickWall_update(v.currentCurve[1], v.currentParams[1],
                          <<view.pathLength>>, <<v.falloffAnchor>>)

\* rebuildWall with the fields v
rebuildWall(v) ==
    IF v.currentCurve = <<>> \/ v.currentParams = <<>>
    THEN UNCHANGED wallVars
    ELSE BrickWall_update(v.currentCurve[1], v.currentParams[1],
                          <<v.pathLength>>, <<v.falloffAnchor>>)

\* the corner of the path of the fields v falls on a whole quantum
exactPath(v) == v.currentCurve # <<>> => onGrid(v.currentCurve[1], <<v.pathLength>>)

\* a handler that leaves the fields v and calls rebuildWall
rebuilt(name, v) ==
    /\ exactPath(v)
    /\ view' = [v EXCEPT !.event = name, !.updates = rebuilds(v),
                         !.button = IF name = "pointer down" THEN @ ELSE <<>>]
    /\ rebuildWall(v)
    /\ UNCHANGED editor

\* a handler that leaves the fields v and does not call rebuildWall
returned(name, v) ==
    /\ view' = [v EXCEPT !.event = name, !.updates = 0,
                         !.button = IF name = "pointer down" THEN @ ELSE <<>>]
    /\ UNCHANGED <<wallVars, editor>>

\* new ControlPanel(...) at lines 145-164: its constructor reports the
\* parameters (rebuildWall returns, there is no curve yet) and then the
\* curve; lines 165-167 assign the same values again
ControlPanel_initialSync ==
    /\ view.event = "new"
    /\ rebuilt("initial sync",
               [view EXCEPT !.currentParams = <<InitialParams>>,
                            !.currentCurve = <<DefaultCurvePoints>>])

\* handleResize: the call at line 170 of the constructor and every resize
\* of the window
handleResize ==
    /\ view.event # "new"
    /\ rebuilt("resize", view)

onParamsChange(p) ==
    /\ constructed
    /\ rebuilt("params", [view EXCEPT !.currentParams = <<p>>])

onCurveChange(pts) ==
    /\ constructed
    /\ rebuilt("curve", [view EXCEPT !.currentCurve = <<pts>>])

onPathLengthChange(length) ==
    /\ constructed
    /\ rebuilt("path length", [view EXCEPT !.pathLength = length])

\* updateFalloffAnchor(position): the marker follows the anchor
updateFalloffAnchor(v, position) == [v EXCEPT !.falloffAnchor = position]

handleFalloffPointerDown_AnyButton(button, hit) ==
    LET v == [view EXCEPT !.button = <<button>>]
    IN  /\ constructed
        /\ IF hit = <<>>
           THEN returned("pointer down", v)
           ELSE IF distanceToSquared(hit[1], v.falloffAnchor) > threshold * threshold
           THEN returned("pointer down", v)
           ELSE rebuilt("pointer down",
                        updateFalloffAnchor([v EXCEPT !.isDraggingFalloff = TRUE,
                                                      !.controlsEnabled = FALSE],
                                            hit[1]))

handleFalloffPointerDown(button, hit) ==
    LET v == [view EXCEPT !.button = <<button>>]
    IN  /\ constructed
        /\ IF button # 0
           THEN returned("pointer down", v)
           ELSE IF hit = <<>>
           THEN returned("pointer down", v)
           ELSE IF distanceToSquared(hit[1], v.falloffAnchor) > threshold * threshold
           THEN returned("pointer down", v)
           ELSE rebuilt("pointer down",
                        updateFalloffAnchor([v EXCEPT !.isDraggingFalloff = TRUE,
                                                      !.controlsEnabled = FALSE],
                                            hit[1]))

handleFalloffPointerMove(hit) ==
    /\ constructed
    /\ IF ~view.isDraggingFalloff
       THEN returned("pointer move", view)
       ELSE IF hit = <<>>
       THEN returned("pointer move", view)
       ELSE rebuilt("pointer move", updateFalloffAnchor(view, hit[1]))

handleFalloffPointerUp ==
    /\ constructed
    /\ IF ~view.isDraggingFalloff
       THEN returned("pointer up", view)
       ELSE returned("pointer up", [view EXCEPT !.isDraggingFalloff = FALSE,
                                                !.controlsEnabled = TRUE])

\* an input event of a slider of the panel (lines 224-228 of ControlPanel)
SliderInput ==
    \/ \E v \in RowCounts :
           onParamsChange([view.currentParams[1] EXCEPT !.rows = v])
    \/ \E v \in BrickLengths :
           onParamsChange([view.currentParams[1] EXCEPT !.brickLength = v])

CurveEdited == \E pts \in SceneCurves : onCurveChange(pts)

PathLengthInput == \E length \in PathLengths : onPathLengthChange(length)

FalloffPointerDown == \E button \in Buttons, hit \in GroundHits :
    handleFalloffPointerDown(button, hit)

FalloffPointerMove == \E hit \in GroundHits : handleFalloffPointerMove(hit)

(* ---- CurveEditor ---- *)
\* rect.width and rect.height of the canvas, equal to rectWidth and
\* rectHeight of the last refreshSize
rectWidth == MaxCol * PixelStep
rectHeight == 2 * PixelStep

\* A point is <<x, y>>: the numerators of the normalized coordinates
\* x / rectWidth and y / rectHeight, so that [0, 1] is 0..rectWidth and
\* 0..rectHeight.
\* clamp(value, min, max)
clamp(value, min, max) == Max(min, Min(max, value))

\* createDefaultPoints: four points from left to right on one height
createDefaultPoints ==
    [k \in 1..4 |-> <<(k - 1) * PixelStep, PixelStep>>]

\* event.clientX - rect.left and event.clientY - rect.top of the pointer
\* events: on the canvas, and left of, right of and above it
PointerXs == {k * PixelStep : k \in (0 - 1)..(MaxCol + 1)}
PointerYs == {0 - PixelStep, PixelStep}

\* toCanvasCoords: point.x * rectWidth, the numerator itself
toCanvasCoords(point) ==
    <<(point[1] * rectWidth) \div rectWidth, (point[2] * rectHeight) \div rectHeight>>

\* the loop of pickHandle from index i: the first handle within the radius
\* (<<i>>, 1-based) or null (<<>>)
RECURSIVE pickLoop(_, _, _, _)
pickLoop(pts, i, x, y) ==
    IF i > Len(pts) THEN <<>>
    ELSE LET dx == toCanvasCoords(pts[i])[1] - x
             dy == toCanvasCoords(pts[i])[2] - y
         IN  IF dx * dx + dy * dy <= radius * radius THEN <<i>>
             ELSE pickLoop(pts, i + 1, x, y)

pickHandle(pts, x, y) == pickLoop(pts, 1, x, y)

updatePointFromEvent_NoClamp(e, index, x, y) ==
    LET moved == [e.points EXCEPT ![index] = <<x, y>>]
    IN  [e EXCEPT !.points = moved, !.emitted = <<moved>>]

\* updatePointFromEvent and emitChange: the point is replaced by the clamped
\* pointer position and a copy of the list goes to the change handlers
updatePointFromEvent(e, index, x, y) ==
    LET moved == [e.points EXCEPT ![index] =
                     <<clamp(x, 0, rectWidth), clamp(y, 0, rectHeight)>>]
    IN  [e EXCEPT !.points = moved, !.emitted = <<moved>>]

\* the editor after new CurveEditor(canvas); button is event.button of the
\* last pointer down (the left button before any)
newEditor ==
    [points |-> createDefaultPoints,
     draggingIndex |-> <<>>,
     button |-> 0,
     emitted |-> <<>>]

handlePointerDown(button, x, y) ==
    LET index == pickHandle(editor.points, x, y)
        e == [editor EXCEPT !.button = button, !.emitted = <<>>]
    IN  /\ editor' = IF index = <<>> THEN e
                     ELSE updatePointFromEvent([e EXCEPT !.draggingIndex = index],
                                               index[1], x, y)
        /\ UNCHANGED <<wallVars, view>>

handlePointerMove(x, y) ==
    /\ editor' = IF editor.draggingIndex = <<>>
                 THEN [editor EXCEPT !.emitted = <<>>]
                 ELSE updatePointFromEvent(editor, editor.draggingIndex[1], x, y)
    /\ UNCHANGED <<wallVars, view>>

handlePointerUp ==
    /\ editor' = [editor EXCEPT !.draggingIndex = <<>>, !.emitted = <<>>]
    /\ UNCHANGED <<wallVars, view>>

EditorPointerDown == \E button \in Buttons, x \in PointerXs, y \in PointerYs :
    handlePointerDown(button, x, y)

EditorPointerMove == \E x \in PointerXs, y \in PointerYs :
    handlePointerMove(x, y)

Init ==
    /\ view = newView
    /\ editor = newEditor
    /\ params = InitialParams
    \* no update has run: there is no curve and nothing is placed
    /\ curve = [finite |-> FALSE, len |-> 0, bend |-> 0]
    /\ falloffAnchor = <<>>
    /\ placements = <<>>
    /\ pruned = <<>>
    /\ mesh = <<>>
    /\ wireframeGroup = <<>>
    /\ points = <<>>
    /\ targetLength = <<>>
    /\ world = baseWorld
    /\ scene = emptyScene

Next ==
    \/ SetBrickLength
    \/ SetRows
    \/ SetFalloff
    \/ CurveChange
    \/ AnchorChange
    \/ dispose

Spec == Init /\ [][Next]_vars

\* the wall under changes of the brick dimensions and the gap
NextDims ==
    \/ SetBrickLength
    \/ SetBrickWidth
    \/ SetBrickHeight
    \/ SetGap
    \/ CurveChange
    \/ dispose

SpecDims == Init /\ [][NextDims]_vars

\* the wall under changes of the control points and the target length
NextPath ==
    \/ PointsChange
    \/ PathLengthChange
    \/ SetRows
    \/ dispose

SpecPath == Init /\ [][NextPath]_vars

\* the events of the 3D view and the panel
NextScene ==
    \/ ControlPanel_initialSync
    \/ handleResize
    \/ SliderInput
    \/ CurveEdited
    \/ PathLengthInput
    \/ FalloffPointerDown
    \/ FalloffPointerMove
    \/ handleFalloffPointerUp

SpecScene == Init /\ [][NextScene]_vars

\* the pointer events of the path designer
NextEditor ==
    \/ EditorPointerDown
    \/ EditorPointerMove
    \/ handlePointerUp

SpecEditor == Init /\ [][NextEditor]_vars

TypeOK ==
    /\ params.brickLength \in BrickLengths
    /\ params.rows \in RowCounts
    /\ params.falloff \in FalloffValues
    /\ curve \in Curves
    /\ falloffAnchor \in Anchors

(* ---- what the claims speak about ---- *)
\* the number of placements of row r in the list ps
RowCount(ps, r) == Cardinality({k \in 1..Len(ps) : ps[k].row = r})

\* the last update pruned something: applyFalloff ran past its early returns
FalloffActive ==
    /\ params.falloff # <<>>
    /\ params.falloff[1] > 0
    /\ falloffAnchor # <<>>
    /\ params.rows >= 2
    /\ curve.finite /\ curve.len > 0

\* C1: the number of row-0 placements returned by applyFalloff equals the
\* number of row-0 placements passed in, whatever the strength and the anchor
C1_RowZeroKept == RowCount(pruned, 0) = RowCount(placements, 0)

\* applyFalloff removed bricks of a higher row while row 0 held several
C1_Witness ==
    /\ FalloffActive
    /\ RowCount(placements, 0) >= 2
    /\ Len(pruned) < Len(placements)

\* C2: every row that had at least one placement before applyFalloff still
\* has at least one after it, for every strength (1 included) and anchor
C2_MinimumSurvivors ==
    \A r \in 0..(params.rows - 1) :
        RowCount(placements, r) >= 1 => RowCount(pruned, r) >= 1

\* full strength: the top row had several bricks and is cut down to one
C2_Witness ==
    /\ FalloffActive
    /\ params.falloff[1] >= FalloffScale
    /\ RowCount(placements, params.rows - 1) >= 2
    /\ RowCount(pruned, params.rows - 1) = 1

\* C3 as stated: for strength s > 0 and rows >= 2, the surviving fraction of
\* a row (survivors / bricks before pruning) is non-increasing in the row index
C3_FractionMonotoneInRow ==
    (params.falloff # <<>> /\ params.falloff[1] > 0 /\ params.rows >= 2) =>
        \A r1, r2 \in 0..(params.rows - 1) :
            (r1 < r2 /\ RowCount(placements, r1) > 0 /\ RowCount(placements, r2) > 0)
            => RowCount(pruned, r2) * RowCount(placements, r1)
                   <= RowCount(pruned, r1) * RowCount(placements, r2)

\* C3 amended: among rows that held the same number of bricks before pruning,
\* the number of survivors is non-increasing in the row index
C3_CountMonotoneAmongEqualRows ==
    (params.falloff # <<>> /\ params.falloff[1] > 0 /\ params.rows >= 2) =>
        \A r1, r2 \in 0..(params.rows - 1) :
            (r1 < r2 /\ RowCount(placements, r1) = RowCount(placements, r2))
            => RowCount(pruned, r2) <= RowCount(pruned, r1)

\* two rows of equal size, the higher one keeping strictly fewer bricks
C3_Witness ==
    /\ FalloffActive
    /\ \E r1, r2 \in 1..(params.rows - 1) :
           /\ r1 < r2
           /\ RowCount(placements, r1) = RowCount(placements, r2)
           /\ RowCount(pruned, r2) < RowCount(pruned, r1)
           /\ RowCount(pruned, r1) < RowCount(placements, r1)

\* the list applyFalloff returns for the inputs of the last update with the
\* falloff strength replaced by f
PrunedAt(f) ==
    applyFalloff(placements, [params EXCEPT !.falloff = f], curve, falloffAnchor)

NumericFalloffs == {f \in FalloffValues : f # <<>>}

\* C4: with row, curve and anchor fixed, the number of survivors of a row is
\* non-increasing in the falloff strength; a strength below 0 acts as 0 and
\* a strength above 1 acts as 1
C4_CountMonotoneInStrength ==
    params.falloff # <<>> =>
        /\ \A f \in NumericFalloffs :
               f[1] >= params.falloff[1] =>
                   \A r \in 0..(params.rows - 1) :
                       RowCount(PrunedAt(f), r) <= RowCount(pruned, r)
        /\ params.falloff[1] < 0 => pruned = PrunedAt(<<0>>)
        /\ params.falloff[1] > FalloffScale => pruned = PrunedAt(<<FalloffScale>>)

\* a stronger falloff removes strictly more of a row that is already pruned,
\* and a strength above 1 prunes
C4_Witness ==
    /\ FalloffActive
    /\ \/ \E f \in NumericFalloffs, r \in 1..(params.rows - 1) :
              /\ f[1] > params.falloff[1]
              /\ RowCount(PrunedAt(f), r) < RowCount(pruned, r)
              /\ RowCount(pruned, r) < RowCount(placements, r)
       \/ (params.falloff[1] > FalloffScale /\ Len(pruned) < Len(placements))

\* the distances of the row-r placements of ps, as a set
RowDistances(ps, r) == {ps[k].distance : k \in {j \in 1..Len(ps) : ps[j].row = r}}

\* C5's distances of row r on a curve of length L: offset + (i + 0.5) *
\* brickLength for i below max(1, floor(max(L - offset, brickLength) /
\* brickLength)), those that do not exceed L
ExpectedDistances(r, L, bl) ==
    LET offset == IF r % 2 = 1 THEN bl \div 2 ELSE 0
        longest == IF L - offset > bl THEN L - offset ELSE bl
        n == IF longest \div bl > 1 THEN longest \div bl ELSE 1
    IN  {d \in {offset + i * bl + bl \div 2 : i \in 0..(n - 1)} : d <= L}

\* C5: on a curve of positive finite length computePlacements returns for
\* each row exactly the expected distances, once each, rows ascending and
\* distances ascending within a row
C5_PlacementsAsSpecified ==
    (curve.finite /\ curve.len > 0) =>
        /\ \A r \in 0..(params.rows - 1) :
               /\ RowDistances(placements, r)
                      = ExpectedDistances(r, curve.len, params.brickLength)
               /\ RowCount(placements, r) = Cardinality(RowDistances(placements, r))
        /\ \A k \in 1..Len(placements) : placements[k].row \in 0..(params.rows - 1)
        /\ \A j, k \in 1..Len(placements) :
               j < k =>
                   \/ placements[j].row < placements[k].row
                   \/ /\ placements[j].row = placements[k].row
                      /\ placements[j].distance < placements[k].distance

\* several rows, several bricks per row, and a staggered row that holds
\* fewer bricks than row 0
C5_Witness ==
    /\ curve.finite /\ curve.len > 0
    /\ params.rows >= 3
    /\ RowCount(placements, 1) >= 2
    /\ RowCount(placements, 1) < RowCount(placements, 0)

\* C6: every placement computePlacements produces, and every placement that
\* survives applyFalloff, has a row in [0, rows) and 0 < distance <= length
C6_PlacementRanges ==
    /\ \A k \in 1..Len(placements) :
           /\ placements[k].row \in 0..(params.rows - 1)
           /\ 0 < placements[k].distance
           /\ placements[k].distance <= curve.len
    /\ \A k \in 1..Len(pruned) :
           /\ pruned[k].row \in 0..(params.rows - 1)
           /\ 0 < pruned[k].distance
           /\ pruned[k].distance <= curve.len

\* a pruned wall whose top row keeps the brick next to the path end
C6_Witness ==
    /\ FalloffActive
    /\ Len(pruned) < Len(placements)
    /\ \E k \in 1..Len(pruned) :
           /\ pruned[k].row = params.rows - 1
           /\ pruned[k].distance + params.brickLength > curve.len

\* C7: on every curve of positive finite length, however short, every row
\* r in [0, rows) receives at least one brick
C7_EveryRowHasBrick ==
    (curve.finite /\ curve.len > 0) =>
        \A r \in 0..(params.rows - 1) : RowCount(placements, r) >= 1

\* the row-r placements of ps in ascending distance: the k-th is the one
\* with k - 1 smaller distances in the row
RowSorted(ps, r) ==
    LET ds == RowDistances(ps, r)
    IN  [k \in 1..Cardinality(ds) |->
            [distance |-> CHOOSE d \in ds :
                              Cardinality({e \in ds : e < d}) = k - 1,
             row |-> r]]

\* the placements of row r in ps, in the order of ps
RowOf(ps, r) ==
    LET F[k \in 0..Len(ps)] ==
            IF k = 0 THEN <<>>
            ELSE IF ps[k].row = r THEN Append(F[k - 1], ps[k]) ELSE F[k - 1]
    IN  F[Len(ps)]

\* the strength applyFalloff works with: s clamped to [0, 1], over FalloffScale
Strength == IF params.falloff[1] > FalloffScale THEN FalloffScale ELSE params.falloff[1]

\* C8's k: clamp(round(n * keepFraction), 1, n) with keepFraction =
\* 1 - s * r / (rows - 1); round is the integer m with m - 1/2 <= x < m + 1/2
ExpectedKeep(n, r) ==
    LET den == FalloffScale * (params.rows - 1)
        num == n * (den - Strength * r)
        m == CHOOSE i \in 0..n :
                 2 * den * i - den <= 2 * num /\ 2 * num < 2 * den * i + den
    IN  IF m < 1 THEN 1 ELSE IF m > n THEN n ELSE m

\* C8's closestIndex (0-based): the lowest index of the sorted row whose
\* distance is nearest the anchor distance
ExpectedClosest(sorted) ==
    LET a == anchorDistance(curve, falloffAnchor[1])
        gap(k) == Abs(sampleCount * sorted[k].distance - a)
    IN  (CHOOSE k \in 1..Len(sorted) :
            /\ \A j \in 1..Len(sorted) : gap(k) <= gap(j)
            /\ \A j \in 1..(k - 1) : gap(k) < gap(j)) - 1

\* C8's slice [start, start + k) of the sorted row
ExpectedSlice(sorted, r) ==
    LET n == Len(sorted)
        k == ExpectedKeep(n, r)
        raw == ExpectedClosest(sorted) - ((k - 1) \div 2)
        start == IF raw < 0 THEN 0 ELSE IF raw > n - k THEN n - k ELSE raw
    IN  [i \in 1..k |-> sorted[start + i]]

DirectionFlags == DOMAIN params \ {"brickLength", "brickWidth", "brickHeight",
                                    "gap", "falloff", "rows"}

\* the complement of the kept window: the rest of the sorted row
ComplementOfSlice(sorted, r) ==
    LET kept == {ExpectedSlice(sorted, r)[i].distance :
                    i \in 1..Len(ExpectedSlice(sorted, r))}
    IN  SelectSeq(sorted, LAMBDA q : q.distance \notin kept)

\* C9: the brick parameters carry a falloff direction flag, and a pruned
\* row keeps the window nearest the anchor when the flag is off and the
\* complement of that window when it is on
C9_DirectionFlagSelects ==
    (FalloffActive /\ Len(pruned) < Len(placements)) =>
        /\ DirectionFlags # {}
        /\ \A f \in DirectionFlags :
               \A r \in 1..(params.rows - 1) :
                   LET sorted == RowSorted(placements, r)
                   IN  RowCount(pruned, r) < Len(sorted) =>
                           RowOf(pruned, r) =
                               IF params[f] THEN ComplementOfSlice(sorted, r)
                               ELSE ExpectedSlice(sorted, r)

\* C10: applyFalloff returns its input list unchanged, same elements in the
\* same order, whenever the strength is missing or <= 0, no anchor is
\* supplied, or the row count is <= 1
C10_NoOp ==
    (\/ params.falloff = <<>>
     \/ (params.falloff # <<>> /\ params.falloff[1] <= 0)
     \/ falloffAnchor = <<>>
     \/ params.rows <= 1)
    => pruned = placements

\* a wall of several rows and bricks rebuilt with an anchor but without a
\* falloff strength
C10_Witness ==
    /\ params.falloff = <<>>
    /\ falloffAnchor # <<>>
    /\ params.rows >= 3
    /\ RowCount(placements, params.rows - 1) >= 2
    /\ pruned = placements

\* the surviving bricks of row r lie nearest the anchor distance: no brick
\* of the row before pruning is strictly nearer than a survivor
NearestSurvives(r) ==
    LET a == anchorDistance(curve, falloffAnchor[1])
    IN  \A k \in 1..Len(pruned) :
            pruned[k].row = r =>
                \A j \in 1..Len(placements) :
                    placements[j].row = r =>
                        Abs(sampleCount * pruned[k].distance - a)
                            <= Abs(sampleCount * placements[j].distance - a)

\* C11: with strength 1, rows >= 2 and an anchor, the top row keeps exactly
\* one brick, the one nearest the anchor's arc-length distance, and row 0
\* is fully retained
C11_TopRowKeepsNearest ==
    (FalloffActive /\ params.falloff[1] >= FalloffScale) =>
        /\ RowCount(pruned, params.rows - 1) = 1
        /\ NearestSurvives(params.rows - 1)
        /\ RowOf(pruned, 0) = RowOf(placements, 0)

\* C11 where the top row received bricks: the same, for a top row that
\* computePlacements did not leave empty
C11_TopRowKeepsNearestIfAny ==
    (/\ FalloffActive
     /\ params.falloff[1] >= FalloffScale
     /\ RowCount(placements, params.rows - 1) >= 1) =>
        /\ RowCount(pruned, params.rows - 1) = 1
        /\ NearestSurvives(params.rows - 1)
        /\ RowOf(pruned, 0) = RowOf(placements, 0)

\* the smallest nominal dimension of the brick
MinDimension == Min3(params.brickLength, params.brickWidth, params.brickHeight)

\* the effective dimension of the mesh geometry is > 0 and <= nominal
WithinNominal(eff, nominal) == eff > 0 /\ eff <= nominal

GeometryWithinNominal ==
    /\ WithinNominal(mesh[1].geometry.length, params.brickLength)
    /\ WithinNominal(mesh[1].geometry.width, params.brickWidth)
    /\ WithinNominal(mesh[1].geometry.height, params.brickHeight)

\* C12 as stated: for positive length, width and height and a gap in
\* [0, min(length, width, height)), every effective dimension of the brick
\* geometry is > 0 and <= the nominal dimension.
C12_GapBound ==
    (/\ mesh # <<>>
     /\ MinDimension > 0
     /\ params.gap >= 0
     /\ params.gap < MinDimension) => GeometryWithinNominal

\* C12 amended: the same for length, width and height of at least 0.01.
C12_GapBoundFromEpsilon ==
    (/\ mesh # <<>>
     /\ MinDimension >= Epsilon
     /\ params.gap >= 0
     /\ params.gap < MinDimension) => GeometryWithinNominal

\* a wall whose bricks are shrunk by a gap just below the smallest dimension
C12_Witness ==
    /\ mesh # <<>>
    /\ MinDimension >= Epsilon
    /\ params.gap = MinDimension - 1
    /\ params.gap > 0
    /\ mesh[1].geometry.width < params.brickWidth

\* the gap the claim clamps to, and the dimensions that follow from it
ClaimedGap == MinDimension - Epsilon

ClaimedEffective(nominal) ==
    IF nominal = MinDimension THEN Epsilon ELSE nominal - ClaimedGap

GeometryClampedAtMinimum ==
    /\ mesh[1].geometry.length = ClaimedEffective(params.brickLength)
    /\ mesh[1].geometry.width = ClaimedEffective(params.brickWidth)
    /\ mesh[1].geometry.height = ClaimedEffective(params.brickHeight)

\* the geometry of the same brick with gap 0
GeometryOfZeroGap ==
    /\ mesh[1].geometry.length = Max(params.brickLength, Epsilon)
    /\ mesh[1].geometry.width = Max(params.brickWidth, Epsilon)
    /\ mesh[1].geometry.height = Max(params.brickHeight, Epsilon)

GapOnlyChange ==
    /\ params'.gap # params.gap
    /\ params' = [params EXCEPT !.gap = params'.gap]
    /\ UNCHANGED <<points, targetLength, falloffAnchor>>

\* every instance of the mesh m stands at row * brickHeight + brickHeight / 2
\* of its placement in ps, for the nominal height of p
StacksByNominalHeight(m, ps, p) ==
    \A i \in 1..Len(ps) :
        2 * m.instances[i].y = 2 * ps[i].row * p.brickHeight + p.brickHeight

\* C14: the vertical coordinate of every instance is
\* row * brickHeight + brickHeight / 2 of the nominal height, and an update
\* that changes only the gap leaves the number of instances and every
\* instance's position and orientation unchanged.
C14_GapLeavesInstances ==
    [][/\ mesh' # <<>> => StacksByNominalHeight(mesh'[1], pruned', params')
       /\ GapOnlyChange =>
              /\ pruned' = pruned
              /\ (mesh' = <<>>) <=> (pruned = <<>>)
              /\ mesh' # <<>> => mesh'[1].count = Len(pruned)
              /\ (mesh # <<>> /\ mesh' # <<>>) =>
                     /\ mesh'[1].count = mesh[1].count
                     /\ mesh'[1].instances = mesh[1].instances]_vars

\* a wall of several rows whose gap was changed from the initial one and
\* shrinks the brick height
C14_Witness ==
    /\ mesh # <<>>
    /\ params.gap # InitialParams.gap
    /\ mesh[1].geometry.height < params.brickHeight
    /\ \E i \in 1..mesh[1].count :
           /\ pruned[i].row >= 1
           /\ mesh[1].instances[i].y > params.brickHeight

\* the transform the claim gives the placement q: the curve position and
\* tangent at its distance, raised to the middle of its row
TransformOf(q) ==
    [point |-> pointAtDistance(curve, q.distance),
     y |-> q.row * params.brickHeight + params.brickHeight \div 2,
     tangent |-> tangentAtDistance(curve, q.distance)]

\* C15: the instanced mesh of a non-empty wall holds exactly one instance per
\* surviving placement, and instance i carries the transform of the i-th
\* placement of the list returned by applyFalloff.
C15_InstancePerPlacement ==
    mesh # <<>> =>
        /\ pruned # <<>>
        /\ mesh[1].count = Len(pruned)
        /\ DOMAIN mesh[1].instances = 1..Len(pruned)
        /\ \A i \in 1..Len(pruned) : mesh[1].instances[i] = TransformOf(pruned[i])

\* a wall pruned by the falloff whose instances differ from each other
C15_Witness ==
    /\ mesh # <<>>
    /\ Len(pruned) < Len(placements)
    /\ Len(pruned) >= 3
    /\ mesh[1].instances[1] # mesh[1].instances[Len(pruned)]
    /\ mesh[1].instances[Len(pruned)] = TransformOf(pruned[Len(pruned)])

\* the wall that the four arguments of update determine by themselves
WallOf(pts, p, target, anchor) ==
    LET c == curveFor(pts, target)
        kept == applyFalloff(computePlacements(c, p), p, c, anchor)
    IN  IF kept = <<>> THEN <<>> ELSE <<meshOf(c, kept, p)>>

\* the step is an update with at least 2 points (a step that changes an
\* argument or leaves a mesh is no dispose)
UpdateStep ==
    /\ Len(points') >= 2
    /\ \/ mesh' # <<>>
       \/ <<points, params, targetLength, falloffAnchor>>'
              # <<points, params, targetLength, falloffAnchor>>

\* C16: the wall after an update with at least 2 points depends only on the
\* arguments of that call; whatever updates and disposes came before, the
\* instance count and the transforms are those of WallOf of the arguments.
C16_WallDependsOnArguments ==
    [][UpdateStep => mesh' = WallOf(points', params', targetLength', falloffAnchor')]_vars

\* a rescaled wall on a cornered path with a changed row count
C16_Witness ==
    /\ mesh # <<>>
    /\ Len(points) = 3
    /\ targetLength # <<>>
    /\ targetLength[1] > 0
    /\ params.rows # InitialParams.rows
    /\ mesh[1].count >= 2
    /\ mesh = WallOf(points, params, targetLength, falloffAnchor)

\* the step is a call of update with fewer than 2 points
ShortPointsCall == Len(points') < 2 /\ points' # points

\* C17: an update with fewer than 2 points runs no pipeline stage and leaves
\* the mesh, the wireframe group and their resources as they were.
C17_ShortPointsLeaveWall ==
    [][ShortPointsCall =>
          UNCHANGED <<mesh, wireframeGroup, scene, placements, pruned,
                      params, curve, falloffAnchor, targetLength, world>>]_vars

\* a wall that is still shown after a call with fewer than 2 points
C17_Witness ==
    /\ Len(points) < 2
    /\ mesh # <<>>
    /\ wireframeGroup # <<>>
    /\ scene.meshes = 1
    /\ scene.live = 4

\* the curve of the last update has a length that is not finite or not > 0
DegenerateCurve == ~IsFiniteLength(curve) \/ getLength(curve) <= 0

\* C18: after an update on a curve of zero, negative or non-finite length
\* computePlacements has returned an empty list and no brick mesh is in the
\* scene: an earlier wall is removed and exportOBJ returns null.
C18_DegenerateCurveClearsWall ==
    (Len(points) >= 2 /\ DegenerateCurve) =>
        /\ placements = <<>>
        /\ pruned = <<>>
        /\ mesh = <<>>
        /\ wireframeGroup = <<>>
        /\ scene.meshes = 0
        /\ scene.groups = 0
        /\ exportOBJ(mesh) = <<>>

\* an update on a path of length 0 after the parameters were changed
C18_Witness ==
    /\ Len(points) >= 2
    /\ IsFiniteLength(curve)
    /\ getLength(curve) = 0
    /\ params.rows # InitialParams.rows
    /\ params.falloff # InitialParams.falloff
    /\ exportOBJ(mesh) = <<>>

\* C19: in every reachable state the scene holds at most one brick mesh and
\* at most one wireframe group of the wall, and the mesh, geometries and
\* materials of the previous update are removed and disposed before the next
\* mesh is created: what is in the scene and undisposed is exactly what the
\* current mesh and group hold.
C19_OneWallInScene ==
    /\ scene.meshes <= 1
    /\ scene.groups <= 1
    /\ scene.meshes = (IF mesh # <<>> THEN 1 ELSE 0)
    /\ scene.groups = (IF wireframeGroup # <<>> THEN 1 ELSE 0)
    /\ scene.live = 2 * scene.meshes + 2 * scene.groups

\* a wall that replaced the wall of an earlier update
C19_Witness ==
    /\ mesh # <<>>
    /\ params.brickLength # InitialParams.brickLength
    /\ falloffAnchor # <<>>
    /\ scene = [meshes |-> 1, groups |-> 1, live |-> 4]

\* the curve through the points at the base world size, and its length
BaseCurve == createCurve(points, <<baseWorldWidth, 1>>, <<baseWorldDepth, 1>>)

\* a target length > 0 is given and the base length is finite and > 0
RescaleCase ==
    /\ targetLength # <<>>
    /\ targetLength[1] > 0
    /\ BaseCurve.finite
    /\ BaseCurve.len > 0

\* the world size w is base times targetLength / baseLength
ScaledBy(w, base) == w[1] * BaseCurve.len = base * targetLength[1] * w[2]

\* C20: the curve is rescaled only when a target length > 0 is given and the
\* base length is finite and > 0; then world width and world depth are both
\* multiplied by targetLength / baseLength; in every other case the base
\* curve is used unchanged.
C20_RescaleOnlyWhenPossible ==
    Len(points) >= 2 =>
        IF RescaleCase
        THEN /\ ScaledBy(world.width, baseWorldWidth)
             /\ ScaledBy(world.depth, baseWorldDepth)
             /\ curve = createCurve(points, world.width, world.depth)
        ELSE /\ world = [width |-> <<baseWorldWidth, 1>>,
                         depth |-> <<baseWorldDepth, 1>>]
             /\ curve = BaseCurve

\* a cornered path rescaled to another length than its base length
C20_Witness ==
    /\ Len(points) = 3
    /\ RescaleCase
    /\ targetLength[1] # BaseCurve.len
    /\ getLength(curve) = targetLength[1]
    /\ curve.bend * BaseCurve.len = BaseCurve.bend * targetLength[1]
    /\ curve.bend > 0
    /\ mesh # <<>>

\* C21: when a positive target length is given and the base curve has a
\* positive finite length, the length of the curve used for placement equals
\* the target length within a relative tolerance of 1e-3
\* (1000 * |length - target| <= target).
C21_RescaledLengthIsTarget ==
    (Len(points) >= 2 /\ RescaleCase) =>
        /\ IsFiniteLength(curve)
        /\ 1000 * Abs(getLength(curve) - targetLength[1]) <= targetLength[1]

\* paths, straight and cornered, rescaled to more than their base length
C21_Witness ==
    /\ Len(points) >= 2
    /\ RescaleCase
    /\ targetLength[1] > BaseCurve.len
    /\ BaseCurve.len >= 2
    /\ placements # <<>>
    /\ 1000 * Abs(getLength(curve) - targetLength[1]) <= targetLength[1]

\* the sum over the samples lo..hi of coordinate a of getPointAt, a point
\* measured from the first control point
RECURSIVE sampleSum(_, _, _, _)
sampleSum(lo, hi, c, a) ==
    IF lo = hi THEN getPointAt(c, lo)[a]
    ELSE LET mid == (lo + hi) \div 2
         IN  sampleSum(lo, mid, c, a) + sampleSum(mid + 1, hi, c, a)

\* the sum of the samples u = 0, 1/256 .. 1 of the built curve on axis a is 0
\* (multiplied by sampleCount, points.length and the divisors of the world
\* size w of that axis)
SamplesCentred(a, w, base) ==
    (sampleCount + 1) * sampleCount * vectors(points)[1][a] * w[1]
        + Len(points) * sampleSum(0, sampleCount, curve, a) * base * w[2] = 0

\* C22 as stated: for every point sequence with at least 2 points the
\* centroid of the points of the built curve sampled uniformly in u over
\* [0,1] is at the origin on x and on z.
C22_SampledCurveCentred ==
    (Len(points) >= 2 /\ IsFiniteLength(curve)) =>
        /\ SamplesCentred(1, world.width, baseWorldWidth)
        /\ SamplesCentred(2, world.depth, baseWorldDepth)

\* a straight path between two points is centred as claimed
C22_StraightPathCentred ==
    (Len(points) = 2 /\ IsFiniteLength(curve)) =>
        /\ SamplesCentred(1, world.width, baseWorldWidth)
        /\ SamplesCentred(2, world.depth, baseWorldDepth)

\* the step is one of the external changes: a slider input, a curve change,
\* a path length change, or a pointer event that moved the falloff anchor
ExternalChange ==
    \/ view'.event \in {"params", "curve", "path length"}
    \/ /\ view'.event \in {"pointer down", "pointer move"}
       /\ view'.falloffAnchor # view.falloffAnchor

\* the last update was called with the current fields of the scene, and the
\* wall is the one derived from them
WallOfCurrentInputs ==
    /\ points = view.currentCurve[1]
    /\ params = view.currentParams[1]
    /\ targetLength = <<view.pathLength>>
    /\ falloffAnchor = <<view.falloffAnchor>>
    /\ mesh = WallOf(points, params, targetLength, falloffAnchor)

\* C23: every external change triggers exactly one BrickWall.update, called
\* with the latest points, params, path length and anchor, so after the
\* event the wall is the one derived from the current inputs.
C23_OneUpdatePerChange ==
    [][ExternalChange =>
          /\ view'.updates = 1
          /\ points' = view'.currentCurve[1]
          /\ params' = view'.currentParams[1]
          /\ targetLength' = <<view'.pathLength>>
          /\ falloffAnchor' = <<view'.falloffAnchor>>
          /\ mesh' = WallOf(points', params', targetLength', falloffAnchor')]_vars

\* a wall rebuilt by an anchor move of a drag after the rows, the curve and
\* the path length were changed
C23_Witness ==
    /\ view.event = "pointer move"
    /\ view.isDraggingFalloff
    /\ view.updates = 1
    /\ view.falloffAnchor # newView.falloffAnchor
    /\ view.currentParams[1].rows # InitialParams.rows
    /\ view.currentCurve[1] # DefaultCurvePoints
    /\ view.pathLength # newView.pathLength
    /\ mesh # <<>>
    /\ WallOfCurrentInputs

\* the f lines of block k (1-based) reference only its own v and vn lines
FacesWithinBlock(block, k) ==
    \A t \in 1..Len(block.f) :
        /\ \A i \in {block.f[t].a, block.f[t].b, block.f[t].c} :
               (k - 1) * block.v + 1 <= i /\ i <= k * block.v
        /\ \A i \in {block.f[t].na, block.f[t].nb, block.f[t].nc} :
               (k - 1) * block.vn + 1 <= i /\ i <= k * block.vn

\* C24: in the exported OBJ text the vertex and normal indices are offset
\* cumulatively per instance: the faces of the k-th instance (0-based)
\* reference only vertex indices in [k*V + 1, (k+1)*V] and normal indices in
\* [k*N + 1, (k+1)*N]; exportOBJ returns null when no mesh exists.
C24_ExportOffsets ==
    /\ mesh = <<>> => exportOBJ(mesh) = <<>>
    /\ mesh # <<>> =>
           /\ exportOBJ(mesh) # <<>>
           /\ Len(exportOBJ(mesh)[1]) = mesh[1].count
           /\ \A k \in 1..mesh[1].count :
                  FacesWithinBlock(exportOBJ(mesh)[1][k], k)

\* an export of several instances whose last block starts past the first
C24_Witness ==
    /\ mesh # <<>>
    /\ mesh[1].count >= 3
    /\ exportOBJ(mesh)[1][mesh[1].count].f[1].a > 2 * positionCount
    /\ exportOBJ(mesh)[1][1].f[1].a = 1

\* every coordinate of the list lies in [0, 1]
Normalized(pts) ==
    \A k \in 1..Len(pts) :
        /\ 0 <= pts[k][1] /\ pts[k][1] <= rectWidth
        /\ 0 <= pts[k][2] /\ pts[k][2] <= rectHeight

EditorOK == Normalized(editor.points) /\ Len(editor.points) = 4

\* C25: a right click on a node deletes that node and the deletion is
\* reported to the change handlers (a left click on the path adds one). A
\* pointer down takes a handle exactly when draggingIndex goes from null to an
\* index, and button is the button of that pointer down.
C25_RightClickDeletesNode ==
    [][(/\ editor.draggingIndex = <<>>
        /\ editor'.draggingIndex # <<>>
        /\ editor'.button = 2)
       => /\ Len(editor'.points) = Len(editor.points) - 1
          /\ editor'.emitted # <<>>]_vars

AnchorGap(q) ==
    Abs(sampleCount * q.distance - anchorDistance(curve, falloffAnchor[1]))

\* row r lost bricks in the last update
RowPruned(r) == RowCount(pruned, r) < RowCount(placements, r)

RECURSIVE SubsequenceFrom(_, _, _, _)
SubsequenceFrom(sub, i, full, j) ==
    IF i > Len(sub) THEN TRUE
    ELSE IF j > Len(full) THEN FALSE
    ELSE IF sub[i] = full[j] THEN SubsequenceFrom(sub, i + 1, full, j + 1)
    ELSE SubsequenceFrom(sub, i, full, j + 1)

\* rows ascending, and distances ascending within a row
RowMajor(ps) ==
    \A i, j \in 1..Len(ps) :
        i < j => \/ ps[i].row < ps[j].row
                 \/ (ps[i].row = ps[j].row /\ ps[i].distance < ps[j].distance)

\* C28: the list returned by applyFalloff is a subsequence of the list of
\* computePlacements: nothing new, nothing twice, and in the input's order,
\* rows ascending and distances ascending within a row
C28_PrunedIsSubsequence ==
    /\ \A k \in 1..Len(pruned) : \E j \in 1..Len(placements) : pruned[k] = placements[j]
    /\ \A i, j \in 1..Len(pruned) : i # j => pruned[i] # pruned[j]
    /\ SubsequenceFrom(pruned, 1, placements, 1)
    /\ RowMajor(placements)
    /\ RowMajor(pruned)

\* a pruned wall in which a row of three or more bricks kept only a brick
\* from its middle, below a row that was kept
C28_Witness ==
    /\ FalloffActive
    /\ \E r \in 1..(params.rows - 1) :
           /\ RowCount(placements, r) >= 3
           /\ RowCount(pruned, r) = 1
           /\ \E k \in 1..Len(pruned) :
                  /\ pruned[k].row = r
                  /\ \E i, j \in 1..Len(placements) :
                         /\ placements[i].row = r /\ placements[j].row = r
                         /\ placements[i].distance < pruned[k].distance
                         /\ pruned[k].distance < placements[j].distance

\* consecutive placements of one row are exactly brickLength apart
RowSpacing ==
    \A k \in 1..(Len(placements) - 1) :
        placements[k].row = placements[k + 1].row =>
            placements[k + 1].distance - placements[k].distance = params.brickLength

\* the placement lies wholly on the path, both ends doubled
OnPath(q) ==
    /\ 2 * q.distance - params.brickLength >= 0
    /\ 2 * q.distance + params.brickLength <= 2 * getLength(curve)

\* C29: every brick placed by computePlacements lies wholly on the path and
\* consecutive placements of a row are exactly brickLength apart
C29_BricksOnPath ==
    /\ \A k \in 1..Len(placements) : OnPath(placements[k])
    /\ RowSpacing

\* C29 for the rows that have room for a whole brick behind their offset
\* (totalLength - rowOffset >= brickLength): their bricks lie wholly on the
\* path; consecutive placements of any row are exactly brickLength apart
C29_BricksOnPathWithRoom ==
    /\ \A k \in 1..Len(placements) :
           getLength(curve) - rowOffset(placements[k].row, params.brickLength)
                   >= params.brickLength
               => OnPath(placements[k])
    /\ RowSpacing

\* a staggered row of two or more bricks whose last brick ends exactly on
\* the end of the path
C29_Witness ==
    \E k \in 2..Len(placements) :
        /\ placements[k].row = 1
        /\ placements[k - 1].row = 1
        /\ 2 * placements[k].distance + params.brickLength = 2 * getLength(curve)

\* C30: orbit controls are enabled exactly when the anchor is not dragged; a
\* drag starts only in a pointer down of the left button whose ground hit,
\* where the anchor then is, lies within distance 1 of the anchor; and the
\* anchor moves only while a drag is in progress
C30_DragDiscipline ==
    [][/\ view'.controlsEnabled = ~view'.isDraggingFalloff
       /\ (~view.isDraggingFalloff /\ view'.isDraggingFalloff)
             => /\ view'.event = "pointer down"
                /\ view'.button = <<0>>
                /\ distanceToSquared(view'.falloffAnchor, view.falloffAnchor)
                       <= threshold * threshold
       /\ view'.falloffAnchor # view.falloffAnchor
             => view'.isDraggingFalloff]_vars

\* the anchor is being dragged, orbit controls are off and a pointer move
\* has carried the anchor farther from its first place than a pointer down
\* may pick it up
C30_Witness ==
    /\ view.isDraggingFalloff
    /\ ~view.controlsEnabled
    /\ view.event = "pointer move"
    /\ view.falloffAnchor[1] > threshold
====
